---------------------------- MODULE Spec2Model ----------------------------
(***************************************************************************)
(* Model of image_converter.py: the validator and converter of            *)
(* ImageConverter, the background ConversionWorker, the state kept by     *)
(* ImageConverterGUI and the command-line entry point main.               *)
(*                                                                         *)
(* Strings that the code inspects (paths, extensions) are sequences of    *)
(* one-character strings, so that lower() and endswith() are computed.    *)
(* Messages are sequences of tokens: the fixed text of the f-string,      *)
(* followed by the values formatted into it.                              *)
(***************************************************************************)
EXTENDS Integers, Sequences, FiniteSets, TLC

VARIABLES
    fs,              \* the file system: path -> file record
    vcall,           \* last direct call of validate_file and its result
    ccall,           \* last direct call of convert and its result
    argv,            \* command line of the process
    proc,            \* the process running main: pc, output, exit status
    input_path,      \* ImageConverterGUI.input_path
    output_path,     \* ImageConverterGUI.output_path
    is_converting,   \* ImageConverterGUI.is_converting
    convert_btn,     \* convert_btn.isEnabled()
    progress_bar,    \* [visible, value]
    status_label,    \* text of status_label
    preview,         \* original_image_qt is set
    slots,           \* what the GUI thread is in the middle of, innermost last
    workers,         \* the ConversionWorker threads alive
    queue,           \* signals emitted by workers, not yet delivered
    envops           \* number of changes made to files by other programs

vars == <<fs, vcall, ccall, argv, proc, input_path, output_path,
          is_converting, convert_btn, progress_bar, status_label, preview,
          slots, workers, queue, envops>>

guivars == <<input_path, output_path, is_converting, convert_btn,
             progress_bar, status_label, preview, slots>>

-----------------------------------------------------------------------------
(* Strings *)

LowerOf ==
    [A |-> "a", B |-> "b", C |-> "c", D |-> "d", E |-> "e", F |-> "f",
     G |-> "g", H |-> "h", I |-> "i", J |-> "j", K |-> "k", L |-> "l",
     M |-> "m", N |-> "n", O |-> "o", P |-> "p", Q |-> "q", R |-> "r",
     S |-> "s", T |-> "t", U |-> "u", V |-> "v", W |-> "w", X |-> "x",
     Y |-> "y", Z |-> "z"]

\* str.lower()
lower(s) == [i \in 1..Len(s) |-> IF s[i] \in DOMAIN LowerOf THEN LowerOf[s[i]] ELSE s[i]]

\* str.endswith(suffix)
endswith(s, suffix) ==
    /\ Len(s) >= Len(suffix)
    /\ SubSeq(s, Len(s) - Len(suffix) + 1, Len(s)) = suffix

\* str.endswith(tuple of suffixes)
endswith_any(s, suffixes) == \E i \in DOMAIN suffixes : endswith(s, suffixes[i])

EXT_PNG  == <<".", "p", "n", "g">>
EXT_JPG  == <<".", "j", "p", "g">>
EXT_JPEG == <<".", "j", "p", "e", "g">>
EXT_GIF  == <<".", "g", "i", "f">>
EXT_BMP  == <<".", "b", "m", "p">>
EXT_TIFF == <<".", "t", "i", "f", "f">>
EXT_WEBP == <<".", "w", "e", "b", "p">>
EXT_ICO  == <<".", "i", "c", "o">>

\* Config
VALID_IMAGE_FORMATS ==
    <<EXT_PNG, EXT_JPG, EXT_JPEG, EXT_GIF, EXT_BMP, EXT_TIFF, EXT_WEBP, EXT_ICO>>

ICO_SIZES == <<16, 24, 32, 48, 64, 128, 256>>

MiB == 1024 * 1024

MAX_FILE_SIZE == 100 * 1024 * 1024

JPEG_SUFFIXES == <<EXT_JPG, EXT_JPEG>>

ALPHA_MODES == {"RGBA", "LA", "P"}

JPEG_QUALITY == 95

-----------------------------------------------------------------------------
(* Paths and files used by the checks *)

PA_PNG   == <<"a">> \o EXT_PNG
PA_UPNG  == <<"a", ".", "P", "N", "G">>
PB_JPG   == <<"b">> \o EXT_JPG
PB_UJPEG == <<"b", ".", "J", "p", "e", "g">>
PC_ICO   == <<"c">> \o EXT_ICO
PC_UICO  == <<"c", ".", "I", "C", "O">>
PD_PPM   == <<"d", ".", "p", "p", "m">>
PE_NODOT == <<"e", "p", "n", "g">>
PF_BAK   == <<"f">> \o EXT_JPG \o <<".", "b", "a", "k">>
PG_BMP   == <<"g">> \o EXT_BMP
PH_JPEG  == <<"h">> \o EXT_JPEG
PB_PNG   == <<"b">> \o EXT_PNG
PA_PNG_JPG == PA_PNG \o EXT_JPG

Paths == {PA_PNG, PA_UPNG, PB_JPG, PB_UJPEG, PC_ICO, PC_UICO, PD_PPM,
          PE_NODOT, PF_BAK, PG_BMP, PH_JPEG, PB_PNG, PA_PNG_JPG}

Modes == {"RGB", "RGBA", "LA", "P", "L"}

\* A file: whether the path exists, its size in bytes, and what the codec
\* library does with it: Image.open identifies it (opens), Image.verify
\* accepts it (verifies), its pixel data decode (loads); mode is img.mode.
Absent == [exists |-> FALSE, size |-> 0, opens |-> FALSE, verifies |-> FALSE,
           loads |-> FALSE, mode |-> "RGB"]

ImageFile(mode, size) ==
    [exists |-> TRUE, size |-> size, opens |-> TRUE, verifies |-> TRUE,
     loads |-> TRUE, mode |-> mode]

\* not an image at all (or a directory): Image.open raises
JunkFile(size) ==
    [exists |-> TRUE, size |-> size, opens |-> FALSE, verifies |-> FALSE,
     loads |-> FALSE, mode |-> "RGB"]

\* header readable, verify() raises, pixel data do not decode
BrokenFile(mode, size) ==
    [exists |-> TRUE, size |-> size, opens |-> TRUE, verifies |-> FALSE,
     loads |-> FALSE, mode |-> mode]

\* header readable, verify() raises, pixel data still decode
DamagedFile(mode, size) ==
    [exists |-> TRUE, size |-> size, opens |-> TRUE, verifies |-> FALSE,
     loads |-> TRUE, mode |-> mode]

\* verify() finds nothing, but the pixel data are truncated
TruncatedFile(mode, size) ==
    [exists |-> TRUE, size |-> size, opens |-> TRUE, verifies |-> TRUE,
     loads |-> FALSE, mode |-> mode]

SmallSize == 2048

EmptyFs == [p \in Paths |-> Absent]


-----------------------------------------------------------------------------
(* ImageConverter.validate_file *)

\* Message texts (the Russian originals, translated)
MSG_NOT_FOUND   == "File not found: "
MSG_BAD_FORMAT  == "Unsupported format. Supported: "
MSG_TOO_LARGE   == "File is too large: "
MSG_CORRUPT     == "Corrupt file: "
MSG_OK          == "OK"

\* Exception texts of the codec library and of the operating system
EXC_NO_FILE      == "No such file or directory"
EXC_UNIDENTIFIED == "cannot identify image file"
EXC_VERIFY       == "image file fails verification"
EXC_TRUNCATED    == "image file is truncated"
EXC_IO           == "injected I/O error"

\* the value of f"{num / den:.1f}", in tenths (round half to even)
format_1f(num, den) ==
    LET q == (num * 10) \div den
        r == (num * 10) % den
    IN  IF 2 * r > den \/ (2 * r = den /\ q % 2 = 1) THEN q + 1 ELSE q

\* os.path.exists
path_exists(f, file_path) == f[file_path].exists

\* file_path.lower().endswith(Config.VALID_IMAGE_FORMATS)
has_valid_format(file_path) == endswith_any(lower(file_path), VALID_IMAGE_FORMATS)

\* os.path.getsize (of an existing file)
getsize(f, file_path) == f[file_path].size

\* with Image.open(file_path) as img: img.verify() -- the text of the
\* exception it raises, or "" when it raises none
verify_error(f, file_path) ==
    IF ~f[file_path].exists THEN EXC_NO_FILE
    ELSE IF ~f[file_path].opens THEN EXC_UNIDENTIFIED
    ELSE IF ~f[file_path].verifies THEN EXC_VERIFY
    ELSE ""

CHECK_ORDER == <<"exists", "extension", "size", "verify">>

not_found_result(file_path) ==
    [valid |-> FALSE, message |-> <<MSG_NOT_FOUND, file_path>>,
     evaluated |-> SubSeq(CHECK_ORDER, 1, 1)]

bad_format_result ==
    [valid |-> FALSE, message |-> <<MSG_BAD_FORMAT, VALID_IMAGE_FORMATS>>,
     evaluated |-> SubSeq(CHECK_ORDER, 1, 2)]

too_large_result(file_size) ==
    [valid |-> FALSE,
     message |-> <<MSG_TOO_LARGE, format_1f(file_size, MiB),
                   MAX_FILE_SIZE \div MiB>>,
     evaluated |-> SubSeq(CHECK_ORDER, 1, 3)]

corrupt_result(e) ==
    [valid |-> FALSE, message |-> <<MSG_CORRUPT, e>>, evaluated |-> CHECK_ORDER]

ok_result == [valid |-> TRUE, message |-> <<MSG_OK>>, evaluated |-> CHECK_ORDER]

\* mutant: the extension is looked at before the existence of the file
validate_file_ext_first(file_path, f) ==
    IF ~has_valid_format(file_path) THEN
        [bad_format_result EXCEPT !.evaluated = <<"extension">>]
    ELSE IF ~path_exists(f, file_path) THEN
        [not_found_result(file_path) EXCEPT !.evaluated = <<"extension", "exists">>]
    ELSE IF getsize(f, file_path) > MAX_FILE_SIZE THEN
        too_large_result(getsize(f, file_path))
    ELSE IF verify_error(f, file_path) # "" THEN
        corrupt_result(verify_error(f, file_path))
    ELSE ok_result

\* mutant: a file of exactly the ceiling is rejected
validate_file_ge(file_path, f) ==
    IF ~path_exists(f, file_path) THEN not_found_result(file_path)
    ELSE IF ~has_valid_format(file_path) THEN bad_format_result
    ELSE IF getsize(f, file_path) >= MAX_FILE_SIZE THEN
        too_large_result(getsize(f, file_path))
    ELSE IF verify_error(f, file_path) # "" THEN
        corrupt_result(verify_error(f, file_path))
    ELSE ok_result

\* validate_file run against the file system f with nothing else changing
\* the files meanwhile.  evaluated lists the checks that were carried out.
validate_file(file_path, f) ==
    IF ~path_exists(f, file_path) THEN not_found_result(file_path)
    ELSE IF ~has_valid_format(file_path) THEN bad_format_result
    ELSE IF getsize(f, file_path) > MAX_FILE_SIZE THEN
        too_large_result(getsize(f, file_path))
    ELSE IF verify_error(f, file_path) # "" THEN
        corrupt_result(verify_error(f, file_path))
    ELSE ok_result

NoResult == [valid |-> FALSE, message |-> <<>>, evaluated |-> <<>>]

NoVCall == [done |-> FALSE, path |-> <<>>, result |-> NoResult]

\* a direct call ImageConverter.validate_file(p)
ValidateCall(p) ==
    /\ vcall' = [done |-> TRUE, path |-> p, result |-> validate_file(p, fs)]
    /\ UNCHANGED <<fs, ccall, argv, proc, workers, queue, envops>>
    /\ UNCHANGED guivars

-----------------------------------------------------------------------------
(* ImageConverter.convert *)

MSG_CONVERTED   == "Image converted successfully!"
MSG_CONV_ERROR  == "Conversion error: "

\* What the surroundings do to one call of convert: nothing, or an error
\* raised by Image.open, by the flattening, by save before the output file
\* is opened, or by save while the output file is being written (the
\* partial file is then kept or removed).
Faults == {"none", "open", "transform", "save_early", "save_keep", "save_remove"}

\* Image.open(input_path): the text of the exception, or ""
open_error(f, path, fault) ==
    IF ~f[path].exists THEN EXC_NO_FILE
    ELSE IF ~f[path].opens THEN EXC_UNIDENTIFIED
    ELSE IF fault = "open" THEN EXC_IO
    ELSE ""

\* mutant: every JPEG output is flattened, whatever the source mode
save_strategy_always_flatten(out, mode) ==
    IF endswith_any(lower(out), JPEG_SUFFIXES) THEN "flatten"
    ELSE IF endswith(lower(out), EXT_ICO) THEN "ico"
    ELSE "plain"

\* the branch taken at lines 119-126
save_strategy(out, mode) ==
    IF endswith_any(lower(out), JPEG_SUFFIXES) /\ mode \in ALPHA_MODES THEN "flatten"
    ELSE IF endswith(lower(out), EXT_ICO) THEN "ico"
    ELSE "plain"

NoSave == [strategy |-> "none", path |-> <<>>, image_mode |-> "", format |-> "",
           quality |-> 0, sizes |-> <<>>]

\* the call of save made by the branch: which image is saved where, and
\* with which keyword arguments (quality 0, format "": not passed)
save_call(strategy, out, mode) ==
    IF strategy = "flatten" THEN
        [strategy |-> strategy, path |-> out, image_mode |-> "RGB", format |-> "",
         quality |-> JPEG_QUALITY, sizes |-> <<>>]
    ELSE IF strategy = "ico" THEN
        [strategy |-> strategy, path |-> out, image_mode |-> mode, format |-> "ICO",
         quality |-> 0, sizes |-> ICO_SIZES]
    ELSE
        [strategy |-> strategy, path |-> out, image_mode |-> mode, format |-> "",
         quality |-> 0, sizes |-> <<>>]

\* the exception raised between Image.open and the opening of the output
\* file: the pixel data are decoded by paste (flatten) or by save
transform_error(f, path, strategy, fault) ==
    IF strategy = "flatten" /\ fault = "transform" THEN EXC_IO
    ELSE IF ~f[path].loads THEN EXC_TRUNCATED
    ELSE IF fault = "save_early" THEN EXC_IO
    ELSE ""

\* the exception raised while the output file is written
write_error(fault) == IF fault \in {"save_keep", "save_remove"} THEN EXC_IO ELSE ""

\* the output path once save has returned or raised
file_after_save(before, call, fault) ==
    IF fault = "save_keep" THEN JunkFile(0)
    ELSE IF fault = "save_remove" THEN
        (IF before.exists THEN JunkFile(0) ELSE Absent)
    ELSE ImageFile(call.image_mode, SmallSize)

\* the save call that was reached when transform_error is raised: the
\* flattening raises before rgb_img.save is called
call_reached(f, path, call, fault) ==
    IF call.strategy = "flatten" /\ (fault = "transform" \/ ~f[path].loads)
    THEN NoSave ELSE call

conv_failure(e, strategy, call, wrote) ==
    [success |-> FALSE, message |-> <<MSG_CONV_ERROR, e>>, raised |-> e,
     strategy |-> strategy, save |-> call, wrote |-> wrote]

conv_success(call) ==
    [success |-> TRUE, message |-> <<MSG_CONVERTED>>, raised |-> "",
     strategy |-> call.strategy, save |-> call, wrote |-> TRUE]

\* mutant: an error while the output is written is not reported
convert_swallow(inp, out, f, fault) ==
    IF open_error(f, inp, fault) # "" THEN
        conv_failure(open_error(f, inp, fault), "none", NoSave, FALSE)
    ELSE
        LET call == save_call(save_strategy(out, f[inp].mode), out, f[inp].mode)
        IN  IF transform_error(f, inp, call.strategy, fault) # "" THEN
                conv_failure(transform_error(f, inp, call.strategy, fault),
                             call.strategy, call_reached(f, inp, call, fault), FALSE)
            ELSE conv_success(call)

\* convert(input_path, output_path) against the file system f: the outcome
\* returned, the exception caught (raised), the branch taken (strategy),
\* the save that was called and whether the output file was opened for
\* writing
convert(inp, out, f, fault) ==
    IF open_error(f, inp, fault) # "" THEN
        conv_failure(open_error(f, inp, fault), "none", NoSave, FALSE)
    ELSE
        LET call == save_call(save_strategy(out, f[inp].mode), out, f[inp].mode)
        IN  IF transform_error(f, inp, call.strategy, fault) # "" THEN
                conv_failure(transform_error(f, inp, call.strategy, fault),
                             call.strategy, call_reached(f, inp, call, fault), FALSE)
            ELSE IF write_error(fault) # "" THEN
                conv_failure(write_error(fault), call.strategy, call, TRUE)
            ELSE conv_success(call)

\* the file system after the call
fs_after_convert(inp, out, f, fault) ==
    IF convert(inp, out, f, fault).wrote
    THEN [f EXCEPT ![out] = file_after_save(f[out], convert(inp, out, f, fault).save, fault)]
    ELSE f

NoOutcome == [success |-> FALSE, message |-> <<>>, raised |-> "", strategy |-> "none",
              save |-> NoSave, wrote |-> FALSE]

NoCCall == [done |-> FALSE, n |-> 0, input |-> <<>>, output |-> <<>>, fault |-> "none",
            mode |-> "", opened |-> FALSE, result |-> NoOutcome]

MaxCalls == 1

\* a direct call ImageConverter.convert(inp, out)
ConvertCall(inp, out, fault) ==
    /\ ccall.n < MaxCalls
    /\ ccall' = [done |-> TRUE, n |-> ccall.n + 1, input |-> inp, output |-> out,
                 fault |-> fault, mode |-> fs[inp].mode,
                 opened |-> (open_error(fs, inp, fault) = ""),
                 result |-> convert(inp, out, fs, fault)]
    /\ fs' = fs_after_convert(inp, out, fs, fault)
    /\ UNCHANGED <<vcall, argv, proc, workers, queue, envops>>
    /\ UNCHANGED guivars

-----------------------------------------------------------------------------
(* Initial values *)

\* a positional argument that was not given (None in argparse)
NotGiven == [given |-> FALSE, value |-> <<>>]

Given(v) == [given |-> TRUE, value |-> v]

NoArgv == [input_file |-> NotGiven, output_file |-> NotGiven, gui |-> FALSE]

\* the process before main has run; before is the file system main found
NoProc == [pc |-> "none", branch |-> "none", help |-> FALSE, exit |-> -1,
           printed |-> "", before |-> EmptyFs, outcome |-> NoOutcome]

NoDialog == [kind |-> "none", title |-> "", message |-> <<>>]

\* ImageConverterGUI.__init__ and setup_ui
\* QProgressBar(): the value of a progress bar before the first setValue
PROGRESS_RESET == -1

GuiInit ==
    /\ input_path = <<>>
    /\ output_path = <<>>
    /\ is_converting = FALSE
    /\ convert_btn = FALSE
    /\ progress_bar = [visible |-> FALSE, value |-> PROGRESS_RESET]
    /\ status_label = <<"ready">>
    /\ preview = FALSE
    /\ workers = <<>>
    /\ slots = <<>>
    /\ queue = <<>>

-----------------------------------------------------------------------------
(* The validator called directly, on every path and file *)

SizeSpread == 2

VSizes == {0, SmallSize, MAX_FILE_SIZE + MiB \div 4}
            \cup ((MAX_FILE_SIZE - SizeSpread) .. (MAX_FILE_SIZE + SizeSpread))

VFiles == {Absent}
            \cup {ImageFile("RGB", sz) : sz \in VSizes}
            \cup {JunkFile(sz) : sz \in VSizes}
            \cup {BrokenFile("RGB", sz) : sz \in VSizes}
            \cup {TruncatedFile("RGB", sz) : sz \in VSizes}

InitValidate ==
    /\ \E p \in Paths, file \in VFiles : fs = [EmptyFs EXCEPT ![p] = file]
    /\ vcall = NoVCall
    /\ ccall = NoCCall
    /\ argv = NoArgv
    /\ proc = NoProc
    /\ envops = 0
    /\ GuiInit

NextValidate == \E p \in Paths : ValidateCall(p)

SpecValidate == InitValidate /\ [][NextValidate]_vars

\* the four checks, each taken on its own
CheckHolds(k, p, f) ==
    CASE k = 1 -> f[p].exists
      [] k = 2 -> \E i \in DOMAIN VALID_IMAGE_FORMATS :
                      endswith(lower(p), VALID_IMAGE_FORMATS[i])
      [] k = 3 -> f[p].size <= 100 * 1024 * 1024
      [] k = 4 -> f[p].exists /\ f[p].opens /\ f[p].verifies

FailingChecks(p, f) == {k \in 1..4 : ~CheckHolds(k, p, f)}

Least(S) == CHOOSE x \in S : \A y \in S : x <= y

FailureClass == <<MSG_NOT_FOUND, MSG_BAD_FORMAT, MSG_TOO_LARGE, MSG_CORRUPT>>

\* C1: validate_file reports the class of the earliest failing check in the
\* order existence, extension, size, verify; it evaluates no check after
\* the first failure, and it succeeds exactly when all four checks pass.
C1_EarliestFailureWins ==
    vcall.done =>
        LET failing == FailingChecks(vcall.path, fs)
            r == vcall.result
        IN  /\ r.valid <=> failing = {}
            /\ failing = {} =>
                   /\ r.evaluated = <<"exists", "extension", "size", "verify">>
                   /\ r.message[1] = MSG_OK
            /\ failing # {} =>
                   /\ r.message[1] = FailureClass[Least(failing)]
                   /\ r.evaluated =
                          SubSeq(<<"exists", "extension", "size", "verify">>,
                                 1, Least(failing))

\* a missing file with an extension outside the allow-list was reported as
\* not found, and only the existence check was made
C1_Witness ==
    /\ vcall.done
    /\ {1, 2} \subseteq FailingChecks(vcall.path, fs)
    /\ vcall.result.message[1] = MSG_NOT_FOUND
    /\ vcall.result.evaluated = <<"exists">>

\* C2: an existing, allow-listed, decodable file is accepted when its size
\* is at most 100 * 1024 * 1024 bytes and rejected as too large when it is
\* one byte or more over.
C2_SizeCeiling ==
    (/\ vcall.done
     /\ CheckHolds(1, vcall.path, fs)
     /\ CheckHolds(2, vcall.path, fs)
     /\ CheckHolds(4, vcall.path, fs)) =>
        /\ fs[vcall.path].size <= 104857600 => vcall.result.valid
        /\ fs[vcall.path].size >= 104857601 =>
               /\ ~vcall.result.valid
               /\ vcall.result.message[1] = MSG_TOO_LARGE

\* a decodable file of exactly the ceiling was accepted
C2_Witness ==
    /\ vcall.done
    /\ fs[vcall.path].size = 104857600
    /\ fs[vcall.path].verifies
    /\ vcall.result.valid

-----------------------------------------------------------------------------
(* The converter called directly *)

CFiles == {Absent, JunkFile(SmallSize), BrokenFile("RGBA", SmallSize),
           TruncatedFile("P", SmallSize)}
            \cup {ImageFile(m, SmallSize) : m \in Modes}

CInputs == {PA_PNG, PB_JPG}

InitConvert ==
    /\ \E file \in CFiles : fs = [EmptyFs EXCEPT ![PA_PNG] = file]
    /\ vcall = NoVCall
    /\ ccall = NoCCall
    /\ argv = NoArgv
    /\ proc = NoProc
    /\ envops = 0
    /\ GuiInit

NextConvert == \E inp \in CInputs, out \in Paths, fault \in Faults : ConvertCall(inp, out, fault)

SpecConvert == InitConvert /\ [][NextConvert]_vars

IsJpegName(out) ==
    \/ endswith(lower(out), <<".", "j", "p", "g">>)
    \/ endswith(lower(out), <<".", "j", "p", "e", "g">>)

IsIcoName(out) == endswith(lower(out), <<".", "i", "c", "o">>)

\* C3: once the source is open, convert takes exactly one of three save
\* strategies: flatten onto white and save with quality 95 iff the output
\* name ends in .jpg/.jpeg (any case) and the source mode is RGBA, LA or P;
\* ICO save with the sizes 16, 24, 32, 48, 64, 128, 256 iff the output name
\* ends in .ico; the unmodified image saved without options otherwise.
C3_SaveStrategy ==
    (ccall.done /\ ccall.opened) =>
        LET r == ccall.result
            jpeg == IsJpegName(ccall.output)
            alpha == ccall.mode \in {"RGBA", "LA", "P"}
            ico == IsIcoName(ccall.output)
        IN  /\ r.strategy \in {"flatten", "ico", "plain"}
            /\ r.strategy = "flatten" <=> (jpeg /\ alpha)
            /\ r.strategy = "ico" <=> ico
            /\ r.strategy = "plain" <=> (~ico /\ ~(jpeg /\ alpha))
            /\ r.save.strategy \in {"none", r.strategy}
            /\ r.save.strategy = "flatten" =>
                   /\ r.save.quality = 95
                   /\ r.save.image_mode = "RGB"
                   /\ r.save.sizes = <<>>
            /\ r.save.strategy = "ico" =>
                   /\ r.save.format = "ICO"
                   /\ r.save.sizes = <<16, 24, 32, 48, 64, 128, 256>>
                   /\ r.save.image_mode = ccall.mode
            /\ r.save.strategy = "plain" =>
                   /\ r.save.format = ""
                   /\ r.save.quality = 0
                   /\ r.save.sizes = <<>>
                   /\ r.save.image_mode = ccall.mode
            /\ r.save.strategy # "none" => r.save.path = ccall.output

\* a palette image was written to a name ending in .Jpeg through the
\* flattening branch
C3_Witness ==
    /\ ccall.done
    /\ ccall.output = PB_UJPEG
    /\ ccall.mode = "P"
    /\ ccall.result.success
    /\ ccall.result.save.strategy = "flatten"

\* C4: convert returns an outcome for every input: an exception raised by
\* the open, the transformation or the save gives (False, message holding
\* the exception text), and (True, the fixed confirmation) is returned only
\* when the save completed, leaving the whole image at the output path.
C4_FaultsBecomeOutcomes ==
    ccall.done =>
        LET r == ccall.result
        IN  /\ \/ /\ r.success
                  /\ r.raised = ""
                  /\ r.message = <<MSG_CONVERTED>>
               \/ /\ ~r.success
                  /\ r.raised # ""
                  /\ Len(r.message) = 2
                  /\ r.message[1] = MSG_CONV_ERROR
                  /\ r.message[2] = r.raised
            /\ r.success =>
                   /\ ccall.opened
                   /\ r.wrote
                   /\ fs[ccall.output].exists
                   /\ fs[ccall.output].opens
                   /\ fs[ccall.output].loads
            /\ ccall.fault \in {"open", "save_early", "save_keep", "save_remove"}
                   => ~r.success
            /\ (ccall.fault = "transform" /\ r.strategy = "flatten") => ~r.success
            /\ ~ccall.opened => ~r.success /\ ~r.wrote

\* an error raised while the output was being written came back as a
\* failure outcome carrying its text
C4_Witness ==
    /\ ccall.done
    /\ ccall.fault = "save_keep"
    /\ ccall.result.wrote
    /\ ~ccall.result.success
    /\ ccall.result.message[2] = EXC_IO

-----------------------------------------------------------------------------
(* main *)

\* "not args.x": None and the empty string are both false
falsy(arg) == ~arg.given \/ arg.value = <<>>

\* mutant: the graphical mode is also taken when one argument is missing
main_branch_gui_on_missing(args) ==
    IF args.gui \/ falsy(args.input_file) \/ falsy(args.output_file) THEN "gui"
    ELSE "convert"

\* the branch of main taken at lines 624-639
main_branch(args) ==
    IF args.gui \/ (falsy(args.input_file) /\ falsy(args.output_file)) THEN "gui"
    ELSE IF falsy(args.input_file) \/ falsy(args.output_file) THEN "help"
    ELSE "convert"

\* mutant: the failure is printed but sys.exit(1) is forgotten
exit_status_zero(outcome) == 0

\* the exit status of the conversion branch: sys.exit(1) on failure, the
\* end of main otherwise
exit_status(outcome) == IF outcome.success THEN 0 ELSE 1

\* main() run to the point where the process ends or the window is shown
Main(fault) ==
    /\ proc.pc = "start"
    /\ LET branch == main_branch(argv)
       IN  IF branch = "gui" THEN
               /\ proc' = [proc EXCEPT !.pc = "gui", !.branch = branch, !.before = fs]
               /\ fs' = fs
           ELSE IF branch = "help" THEN
               /\ proc' = [proc EXCEPT !.pc = "exited", !.branch = branch,
                                       !.help = TRUE, !.printed = "usage",
                                       !.exit = 0, !.before = fs]
               /\ fs' = fs
           ELSE
               LET inp == argv.input_file.value
                   out == argv.output_file.value
                   outcome == convert(inp, out, fs, fault)
               IN  /\ proc' = [proc EXCEPT !.pc = "exited", !.branch = branch,
                                           !.printed = IF outcome.success
                                                       THEN "ok" ELSE "fail",
                                           !.exit = exit_status(outcome),
                                           !.before = fs,
                                           !.outcome = outcome]
                   /\ fs' = fs_after_convert(inp, out, fs, fault)
    /\ UNCHANGED <<vcall, ccall, argv, workers, queue, envops>>
    /\ UNCHANGED guivars

CliInputs == {NotGiven, Given(<<>>), Given(PA_PNG), Given(PD_PPM)}

CliOutputs == {NotGiven, Given(<<>>), Given(PB_JPG), Given(PC_ICO), Given(PA_PNG)}

\* argparse fills input_file first: output_file is given only with it
CliArgs ==
    {a \in [input_file : CliInputs, output_file : CliOutputs, gui : BOOLEAN] :
        a.output_file.given => a.input_file.given}

CliFiles == {Absent, ImageFile("RGB", SmallSize), ImageFile("RGBA", SmallSize),
             JunkFile(SmallSize), BrokenFile("RGB", SmallSize),
             DamagedFile("RGB", SmallSize), ImageFile("RGB", MAX_FILE_SIZE + 1)}

InitCli ==
    /\ \E fa \in CliFiles, fd \in {Absent, ImageFile("RGB", SmallSize)} :
           fs = [EmptyFs EXCEPT ![PA_PNG] = fa, ![PD_PPM] = fd]
    /\ argv \in CliArgs
    /\ proc = [NoProc EXCEPT !.pc = "start"]
    /\ vcall = NoVCall
    /\ ccall = NoCCall
    /\ envops = 0
    /\ GuiInit

NextCli == \E fault \in Faults : Main(fault)

SpecCli == InitCli /\ [][NextCli]_vars

ExactlyOnePositional ==
    argv.input_file.given # argv.output_file.given

Converted == proc.outcome # NoOutcome

\* C8 as stated: with exactly one of the two positional arguments supplied
\* main prints the usage help and performs no conversion.
C8_Original ==
    (proc.pc # "start" /\ ExactlyOnePositional) => (proc.help /\ ~Converted)

\* C8 as amended: without --gui and with exactly one positional argument
\* supplied as a non-empty string, main prints the usage help, converts
\* nothing and ends with status 0; with --gui, or when the only argument is
\* the empty string, it opens the graphical mode and prints no help.
C8_HelpWithoutGuiFlag ==
    (proc.pc # "start" /\ ExactlyOnePositional) =>
        /\ ~Converted
        /\ proc.before = fs
        /\ IF ~argv.gui /\ argv.input_file.value # <<>>
           THEN proc.help /\ proc.pc = "exited" /\ proc.exit = 0
           ELSE ~proc.help /\ proc.pc = "gui"

\* the help was printed for a single input argument without --gui
C8_Witness ==
    /\ proc.pc = "exited"
    /\ ExactlyOnePositional
    /\ ~argv.gui
    /\ proc.help

\* C9: with both positional arguments given (non-empty) and no --gui, main
\* converts, and the exit status is non-zero exactly when convert reports
\* failure and zero when it reports success; a missing input file gives a
\* non-zero status and the output file is not written.
C9_ExitStatus ==
    (/\ proc.pc # "start"
     /\ ~argv.gui
     /\ argv.input_file.given /\ argv.input_file.value # <<>>
     /\ argv.output_file.given /\ argv.output_file.value # <<>>) =>
        /\ proc.pc = "exited"
        /\ proc.branch = "convert"
        /\ Converted
        /\ proc.exit # 0 <=> ~proc.outcome.success
        /\ proc.outcome.success => proc.exit = 0
        /\ ~proc.before[argv.input_file.value].exists =>
               /\ proc.exit # 0
               /\ ~proc.outcome.wrote
               /\ fs = proc.before

\* the input file was missing and the process ended with status 1
C9_Witness ==
    /\ proc.pc = "exited"
    /\ proc.branch = "convert"
    /\ ~proc.before[argv.input_file.value].exists
    /\ proc.exit = 1
    /\ ~fs[argv.output_file.value].exists

\* C5 as stated, on the command line: when the input would fail the
\* validator, no write of the output is attempted.
C5_Original ==
    (/\ proc.pc = "exited"
     /\ proc.branch = "convert"
     /\ ~validate_file(argv.input_file.value, proc.before).valid)
        => proc.outcome.save.strategy = "none"

-----------------------------------------------------------------------------
(* ImageConverterGUI: helpers *)

STATUS_READY         == "ready"
STATUS_LOADED        == "loaded"
STATUS_OUTPUT_SET    == "output set"
STATUS_GO            == "ready to convert"
STATUS_STARTING      == "starting conversion"
STATUS_INVALID       == "validation error"
STATUS_CONVERTED     == "conversion finished"
STATUS_CONV_FAILED   == "conversion error"
STATUS_SUCCESS       == "success"

TITLE_FILE_ERROR == "File error"
TITLE_BAD_DROP   == "Wrong format"
TITLE_ERROR      == "Error"
TITLE_SUCCESS    == "Success"

MSG_BAD_DROP == "Please drop an image file"
MSG_BUSY     == "A conversion is already running"
MSG_NO_PATHS == "Please choose the input and output files"

\* the cross mark in front of the error texts
CROSS == "x"

\* _show_error_status(f"x {title}")
error_status(title) == <<CROSS, title>>

\* _show_error_status("x Error"), the text of lines 497 and 581: the same
\* text as error_status of the title "Error"
STATUS_ERROR == <<CROSS, TITLE_ERROR>>

critical(title, message) == [kind |-> "critical", title |-> title, message |-> message]

information(title, message) == [kind |-> "information", title |-> title, message |-> message]

\* mutant: the button does not look at is_converting
button_enabled_while_converting(inp, out, converting) == inp # <<>> /\ out # <<>>

\* _update_convert_button_state: the button, and the status text it leaves
button_enabled(inp, out, converting) == inp # <<>> /\ out # <<>> /\ ~converting

status_after_update(inp, out, converting, status) ==
    IF button_enabled(inp, out, converting) THEN <<STATUS_GO>> ELSE status

\* QPixmap(image_path).isNull(): the toolkit could not decode the file
pixmap_is_null(f, path) == ~f[path].exists \/ ~f[path].opens \/ ~f[path].loads

\* a worker has path open for writing
BeingWritten(path) ==
    \E i \in DOMAIN workers : workers[i].pc = "saving" /\ workers[i].output_path = path

GuiRunning == proc.pc = "gui"

\* The GUI thread.  slots holds what it has entered and not yet left,
\* innermost last: _load_input_file between two of its reads of the file,
\* or a modal message box.  A message box runs an event loop of its own
\* until it is closed: queued signals are delivered meanwhile, the window
\* under the box takes no input.
load_frame(path, pc) == [op |-> "load", pc |-> pc, path |-> path, box |-> NoDialog]

\* QMessageBox.critical of _show_error; the status text follows when the box
\* has been closed
error_box(title, message) ==
    [op |-> "show_error", pc |-> "box", path |-> <<>>, box |-> critical(title, message)]

\* the message box of _on_conversion_finished; nothing follows it
finished_box(ok, message) ==
    [op |-> "finished", pc |-> "box", path |-> <<>>,
     box |-> IF ok THEN information(TITLE_SUCCESS, message)
             ELSE critical(TITLE_ERROR, message)]

Top == slots[Len(slots)]

\* the GUI thread is in the event loop of the application
Idle == slots = <<>>

\* the GUI thread is in some event loop
InEventLoop == IF slots = <<>> THEN TRUE ELSE Top.pc = "box"

\* the GUI thread is in _load_input_file, before the step pc
Loading(pc) == slots # <<>> /\ Top.op = "load" /\ Top.pc = pc

\* _show_error(title, message) up to the opening of the box, called from a
\* slot that returns after it
show_error(title, message) ==
    /\ slots' = <<error_box(title, message)>>
    /\ UNCHANGED <<input_path, output_path, is_converting, convert_btn,
                   progress_bar, status_label, preview>>

\* _load_input_file(file_path) as far as validate_file, lines 94-98:
\* existence and extension
load_input_file(file_path) ==
    IF ~path_exists(fs, file_path) THEN
        show_error(TITLE_FILE_ERROR, not_found_result(file_path).message)
    ELSE IF ~has_valid_format(file_path) THEN
        show_error(TITLE_FILE_ERROR, bad_format_result.message)
    ELSE
        /\ slots' = <<load_frame(file_path, "size")>>
        /\ UNCHANGED <<input_path, output_path, is_converting, convert_btn,
                       progress_bar, status_label, preview>>

\* browse_input_file: filename is what the open dialog returned
browse_input_file(filename) ==
    /\ GuiRunning
    /\ Idle
    /\ IF filename # <<>> THEN load_input_file(filename)
       ELSE UNCHANGED guivars
    /\ UNCHANGED <<fs, vcall, ccall, argv, proc, workers, queue, envops>>

\* dropEvent: files are the local files of the dropped URLs
dropEvent(files) ==
    /\ GuiRunning
    /\ Idle
    /\ IF files = <<>> THEN UNCHANGED guivars
       ELSE IF has_valid_format(files[1]) THEN load_input_file(files[1])
       ELSE show_error(TITLE_BAD_DROP, <<MSG_BAD_DROP>>)
    /\ UNCHANGED <<fs, vcall, ccall, argv, proc, workers, queue, envops>>

\* _load_input_file in validate_file, lines 100-103: os.path.getsize raises
\* OSError when the file has gone since line 94; nothing catches it and the
\* slot is left with nothing changed
LoadCheckSize ==
    /\ GuiRunning
    /\ Loading("size")
    /\ IF ~path_exists(fs, Top.path) THEN
           /\ slots' = <<>>
           /\ UNCHANGED <<input_path, output_path, is_converting, convert_btn,
                          progress_bar, status_label, preview>>
       ELSE IF getsize(fs, Top.path) > MAX_FILE_SIZE THEN
           show_error(TITLE_FILE_ERROR, too_large_result(getsize(fs, Top.path)).message)
       ELSE
           /\ slots' = <<load_frame(Top.path, "verify")>>
           /\ UNCHANGED <<input_path, output_path, is_converting, convert_btn,
                          progress_bar, status_label, preview>>
    /\ UNCHANGED <<fs, vcall, ccall, argv, proc, workers, queue, envops>>

\* mutant: the path is stored although the validation failed
LoadVerify_store_first ==
    /\ GuiRunning
    /\ Loading("verify")
    /\ IF verify_error(fs, Top.path) # "" THEN
           /\ input_path' = Top.path
           /\ slots' = <<error_box(TITLE_FILE_ERROR,
                                   corrupt_result(verify_error(fs, Top.path)).message)>>
           /\ UNCHANGED <<output_path, is_converting, convert_btn,
                          progress_bar, status_label, preview>>
       ELSE
           /\ slots' = <<load_frame(Top.path, "pixmap")>>
           /\ UNCHANGED <<input_path, output_path, is_converting, convert_btn,
                          progress_bar, status_label, preview>>
    /\ UNCHANGED <<fs, vcall, ccall, argv, proc, workers, queue, envops>>

\* _load_input_file in validate_file, lines 105-110, and the test of line 439
LoadVerify ==
    /\ GuiRunning
    /\ Loading("verify")
    /\ IF verify_error(fs, Top.path) # "" THEN
           show_error(TITLE_FILE_ERROR,
                      corrupt_result(verify_error(fs, Top.path)).message)
       ELSE
           /\ slots' = <<load_frame(Top.path, "pixmap")>>
           /\ UNCHANGED <<input_path, output_path, is_converting, convert_btn,
                          progress_bar, status_label, preview>>
    /\ UNCHANGED <<fs, vcall, ccall, argv, proc, workers, queue, envops>>

\* _load_input_file, lines 443-450: the path is stored, QPixmap reads the
\* file, the button is updated.  One step: between line 443 and line 450
\* nothing but this thread reads or writes what is assigned here.
LoadPreview ==
    /\ GuiRunning
    /\ Loading("pixmap")
    /\ input_path' = Top.path
    /\ preview' = ~pixmap_is_null(fs, Top.path)
    /\ convert_btn' = button_enabled(Top.path, output_path, is_converting)
    /\ status_label' =
           status_after_update(Top.path, output_path, is_converting,
               IF pixmap_is_null(fs, Top.path)
               THEN STATUS_ERROR ELSE <<STATUS_LOADED>>)
    /\ slots' = <<>>
    /\ UNCHANGED <<output_path, is_converting, progress_bar>>
    /\ UNCHANGED <<fs, vcall, ccall, argv, proc, workers, queue, envops>>

\* a message box is closed: _show_error goes on to line 587, the box of
\* _on_conversion_finished has nothing after it
CloseBox ==
    /\ GuiRunning
    /\ slots # <<>>
    /\ Top.pc = "box"
    /\ slots' = SubSeq(slots, 1, Len(slots) - 1)
    /\ status_label' = IF Top.op = "show_error" THEN error_status(Top.box.title)
                       ELSE status_label
    /\ UNCHANGED <<input_path, output_path, is_converting, convert_btn,
                   progress_bar, preview>>
    /\ UNCHANGED <<fs, vcall, ccall, argv, proc, workers, queue, envops>>

\* EXTENSION_PATTERN.search(filter_text): the leftmost "(*." that is followed
\* by a ")" with no line break in between ("." of the pattern matches no
\* line break), and the text up to the first such ")", with a dot in
\* front; <<>> stands for None
HasOpenAt(t, i) == i + 2 <= Len(t) /\ SubSeq(t, i, i + 2) = <<"(", "*", ".">>

LINE_BREAK == "\n"

\* the ends of the matches of the pattern that start at i
ClosesAfter(t, i) ==
    {j \in (i + 3)..Len(t) :
        /\ t[j] = ")"
        /\ \A k \in (i + 3)..(j - 1) : t[k] # LINE_BREAK}

extract_extension_from_filter(filter_text) ==
    LET starts == {i \in 1..Len(filter_text) :
                      /\ HasOpenAt(filter_text, i)
                      /\ ClosesAfter(filter_text, i) # {}}
    IN  IF starts = {} THEN <<>>
        ELSE LET i == Least(starts)
                 j == Least(ClosesAfter(filter_text, i))
             IN  <<".">> \o SubSeq(filter_text, i + 3, j - 1)

filter_entry(label, ext) == label \o <<" ", "(", "*">> \o ext \o <<")">>

FILTER_PNG == filter_entry(<<"P", "N", "G">>, EXT_PNG)

FILTER_JPEG == filter_entry(<<"J", "P", "E", "G">>, EXT_JPG)

\* _set_output_path(file_path)
set_output_path(file_path) ==
    /\ output_path' = file_path
    /\ convert_btn' = button_enabled(input_path, file_path, is_converting)
    /\ status_label' = status_after_update(input_path, file_path, is_converting,
                                           <<STATUS_OUTPUT_SET>>)
    /\ UNCHANGED <<input_path, is_converting, progress_bar, preview, slots>>

\* browse_output_file: filename and selected_filter are what the save
\* dialog returned
browse_output_file(filename, selected_filter) ==
    /\ GuiRunning
    /\ Idle
    /\ IF filename # <<>> THEN
           LET ext == extract_extension_from_filter(selected_filter)
           IN  IF ext # <<>> /\ ~endswith(lower(filename), ext)
               THEN set_output_path(filename \o ext)
               ELSE set_output_path(filename)
       ELSE UNCHANGED guivars
    /\ UNCHANGED <<fs, vcall, ccall, argv, proc, workers, queue, envops>>

-----------------------------------------------------------------------------
(* ConversionWorker *)

\* ConversionWorker.__init__; progress lists the values passed to
\* progress_updated.emit so far
new_worker(inp, out) ==
    [input_path |-> inp, output_path |-> out, pc |-> "start", progress |-> <<>>,
     validated |-> "pending", outcome |-> NoOutcome, fault |-> "none",
     created |-> FALSE, finished |-> 0]

progress_signal(i, n) ==
    [worker |-> i, signal |-> "progress_updated", num |-> n, text |-> "",
     ok |-> FALSE, message |-> <<>>]

status_signal(i, text) ==
    [worker |-> i, signal |-> "status_updated", num |-> 0, text |-> text,
     ok |-> FALSE, message |-> <<>>]

finished_signal(i, ok, message) ==
    [worker |-> i, signal |-> "conversion_finished", num |-> 0, text |-> "",
     ok |-> ok, message |-> message]

\* mutant: the progress bar is not reset when validation fails
invalid_signals_no_reset(i, message) ==
    <<status_signal(i, STATUS_INVALID), finished_signal(i, FALSE, message)>>

\* lines 188-190: the signals of a failed validation
invalid_signals(i, message) ==
    <<progress_signal(i, 0), status_signal(i, STATUS_INVALID),
      finished_signal(i, FALSE, message)>>

\* lines 197-204: the signals after convert has returned
converted_signals(i, outcome) ==
    <<progress_signal(i, 100),
      status_signal(i, IF outcome.success THEN STATUS_CONVERTED ELSE STATUS_CONV_FAILED),
      finished_signal(i, outcome.success, outcome.message)>>

\* the values of the progress signals among sigs
progress_of(sigs) ==
    LET F[k \in 0..Len(sigs)] ==
            IF k = 0 THEN <<>>
            ELSE IF sigs[k].signal = "progress_updated"
                 THEN Append(F[k - 1], sigs[k].num) ELSE F[k - 1]
    IN  F[Len(sigs)]

finished_among(sigs) ==
    Cardinality({k \in DOMAIN sigs : sigs[k].signal = "conversion_finished"})

\* worker i emits sigs and moves to pc
emit(i, sigs, pc) ==
    /\ queue' = queue \o sigs
    /\ workers' = [workers EXCEPT ![i].pc = pc,
                                  ![i].progress = @ \o progress_of(sigs),
                                  ![i].finished = @ + finished_among(sigs)]

\* mutant: the run goes on to convert after a failed validation
reject_and_go_on(i, result) ==
    /\ queue' = queue \o invalid_signals(i, result.message)
    /\ workers' = [workers EXCEPT
                       ![i].pc = "convert",
                       ![i].validated = "invalid",
                       ![i].progress = @ \o progress_of(invalid_signals(i, result.message)),
                       ![i].finished = @ + finished_among(invalid_signals(i, result.message))]

\* the validation of worker i failed with result
reject(i, result) ==
    /\ queue' = queue \o invalid_signals(i, result.message)
    /\ workers' = [workers EXCEPT
                       ![i].pc = "done",
                       ![i].validated = "invalid",
                       ![i].progress = @ \o progress_of(invalid_signals(i, result.message)),
                       ![i].finished = @ + finished_among(invalid_signals(i, result.message))]

\* lines 182-183
WorkerStart(i) ==
    /\ workers[i].pc = "start"
    /\ emit(i, <<status_signal(i, STATUS_STARTING), progress_signal(i, 20)>>, "exists")
    /\ UNCHANGED <<fs, vcall, ccall, argv, proc, envops>>
    /\ UNCHANGED guivars

\* validate_file, lines 94-98: existence and extension
WorkerCheckExists(i) ==
    /\ workers[i].pc = "exists"
    /\ IF ~path_exists(fs, workers[i].input_path) THEN
           reject(i, not_found_result(workers[i].input_path))
       ELSE IF ~has_valid_format(workers[i].input_path) THEN
           reject(i, bad_format_result)
       ELSE /\ workers' = [workers EXCEPT ![i].pc = "size"]
            /\ queue' = queue
    /\ UNCHANGED <<fs, vcall, ccall, argv, proc, envops>>
    /\ UNCHANGED guivars

\* validate_file, lines 100-103: os.path.getsize raises OSError when the
\* file has gone; nothing in validate_file or run catches it
WorkerCheckSize(i) ==
    /\ workers[i].pc = "size"
    /\ IF ~path_exists(fs, workers[i].input_path) THEN
           /\ workers' = [workers EXCEPT ![i].pc = "crashed"]
           /\ queue' = queue
       ELSE IF getsize(fs, workers[i].input_path) > MAX_FILE_SIZE THEN
           reject(i, too_large_result(getsize(fs, workers[i].input_path)))
       ELSE /\ workers' = [workers EXCEPT ![i].pc = "verify"]
            /\ queue' = queue
    /\ UNCHANGED <<fs, vcall, ccall, argv, proc, envops>>
    /\ UNCHANGED guivars

\* validate_file, lines 105-110, and line 193
WorkerVerify(i) ==
    /\ workers[i].pc = "verify"
    /\ IF verify_error(fs, workers[i].input_path) # "" THEN
           reject(i, corrupt_result(verify_error(fs, workers[i].input_path)))
       ELSE /\ queue' = Append(queue, progress_signal(i, 40))
            /\ workers' = [workers EXCEPT ![i].pc = "convert",
                                          ![i].validated = "valid",
                                          ![i].progress = Append(@, 40)]
    /\ UNCHANGED <<fs, vcall, ccall, argv, proc, envops>>
    /\ UNCHANGED guivars

\* mutant: the worker reads the paths of the window instead of its own
WorkerConvert_window_paths(i, fault) ==
    /\ workers[i].pc = "convert"
    /\ input_path # <<>>
    /\ output_path # <<>>
    /\ LET outcome == convert(input_path, output_path, fs, fault)
       IN  IF outcome.wrote THEN
               /\ workers' = [workers EXCEPT
                                  ![i].pc = "saving",
                                  ![i].outcome = outcome,
                                  ![i].fault = fault,
                                  ![i].created = ~fs[output_path].exists]
               /\ fs' = [fs EXCEPT ![output_path] = JunkFile(0)]
               /\ queue' = queue
           ELSE
               /\ queue' = queue \o converted_signals(i, outcome)
               /\ workers' = [workers EXCEPT
                                  ![i].pc = "done",
                                  ![i].outcome = outcome,
                                  ![i].fault = fault,
                                  ![i].progress = Append(@, 100),
                                  ![i].finished = @ + 1]
               /\ fs' = fs
    /\ UNCHANGED <<vcall, ccall, argv, proc, envops>>
    /\ UNCHANGED guivars

\* convert, lines 115-126, up to the point where save has opened the output
\* file for writing (which truncates it), or to its return when it does not
\* get that far
WorkerConvert(i, fault) ==
    /\ workers[i].pc = "convert"
    /\ LET outcome == convert(workers[i].input_path, workers[i].output_path, fs, fault)
       IN  IF outcome.wrote THEN
               /\ workers' = [workers EXCEPT
                                  ![i].pc = "saving",
                                  ![i].outcome = outcome,
                                  ![i].fault = fault,
                                  ![i].created = ~fs[workers[i].output_path].exists]
               /\ fs' = [fs EXCEPT ![workers[i].output_path] = JunkFile(0)]
               /\ queue' = queue
           ELSE
               /\ queue' = queue \o converted_signals(i, outcome)
               /\ workers' = [workers EXCEPT
                                  ![i].pc = "done",
                                  ![i].outcome = outcome,
                                  ![i].fault = fault,
                                  ![i].progress = Append(@, 100),
                                  ![i].finished = @ + 1]
               /\ fs' = fs
    /\ UNCHANGED <<vcall, ccall, argv, proc, envops>>
    /\ UNCHANGED guivars

\* the rest of save and of convert, and lines 197-204
WorkerSaved(i) ==
    /\ workers[i].pc = "saving"
    /\ fs' = [fs EXCEPT ![workers[i].output_path] =
                  file_after_save(IF workers[i].created THEN Absent ELSE JunkFile(0),
                                  workers[i].outcome.save, workers[i].fault)]
    /\ queue' = queue \o converted_signals(i, workers[i].outcome)
    /\ workers' = [workers EXCEPT ![i].pc = "done",
                                  ![i].progress = Append(@, 100),
                                  ![i].finished = @ + 1]
    /\ UNCHANGED <<vcall, ccall, argv, proc, envops>>
    /\ UNCHANGED guivars

-----------------------------------------------------------------------------
(* ImageConverterGUI: conversion *)

\* self.conversion_worker = ConversionWorker(...); start()
start_worker ==
    LET i == Least((1..(Cardinality(DOMAIN workers) + 1)) \ DOMAIN workers)
    IN  workers' = [k \in DOMAIN workers \cup {i} |->
                       IF k = i THEN new_worker(input_path, output_path)
                       ELSE workers[k]]

\* mutant: the flag is_converting is not looked at
convert_image_threaded_unguarded ==
    /\ GuiRunning
    /\ Idle
    /\ IF input_path = <<>> \/ output_path = <<>> THEN
           /\ show_error(TITLE_ERROR, <<MSG_NO_PATHS>>)
           /\ UNCHANGED workers
       ELSE
           /\ is_converting' = TRUE
           /\ progress_bar' = [visible |-> TRUE, value |-> 0]
           /\ convert_btn' = FALSE
           /\ start_worker
           /\ UNCHANGED <<input_path, output_path, preview, status_label, slots>>
    /\ UNCHANGED <<fs, vcall, ccall, argv, proc, queue, envops>>

\* convert_image_threaded (the slot of the convert button)
convert_image_threaded ==
    /\ GuiRunning
    /\ Idle
    /\ IF is_converting THEN
           /\ show_error(TITLE_ERROR, <<MSG_BUSY>>)
           /\ UNCHANGED workers
       ELSE IF input_path = <<>> \/ output_path = <<>> THEN
           /\ show_error(TITLE_ERROR, <<MSG_NO_PATHS>>)
           /\ UNCHANGED workers
       ELSE
           /\ is_converting' = TRUE
           /\ progress_bar' = [visible |-> TRUE, value |-> 0]
           /\ convert_btn' = FALSE
           /\ start_worker
           /\ UNCHANGED <<input_path, output_path, preview, status_label, slots>>
    /\ UNCHANGED <<fs, vcall, ccall, argv, proc, queue, envops>>

\* _on_conversion_finished(success, message) up to the opening of its
\* message box; the thread that sent the signal has returned from run
on_conversion_finished(sig) ==
    /\ progress_bar' = [progress_bar EXCEPT !.visible = FALSE]
    /\ is_converting' = FALSE
    /\ convert_btn' = button_enabled(input_path, output_path, FALSE)
    /\ status_label' = IF sig.ok THEN <<STATUS_SUCCESS>> ELSE STATUS_ERROR
    /\ slots' = Append(slots, finished_box(sig.ok, sig.message))
    /\ workers' = [i \in DOMAIN workers \ {sig.worker} |-> workers[i]]

\* an event loop of the GUI thread, the application's or a message box's,
\* runs the slot connected to the oldest queued signal
Deliver ==
    /\ GuiRunning
    /\ InEventLoop
    /\ queue # <<>>
    /\ queue' = Tail(queue)
    /\ LET sig == Head(queue)
       IN  IF sig.signal = "progress_updated" THEN
               /\ progress_bar' = [progress_bar EXCEPT !.value = sig.num]
               /\ UNCHANGED <<is_converting, convert_btn, status_label,
                              workers, slots>>
           ELSE IF sig.signal = "status_updated" THEN
               /\ status_label' = <<sig.text>>
               /\ UNCHANGED <<is_converting, convert_btn, progress_bar,
                              workers, slots>>
           ELSE on_conversion_finished(sig)
    /\ UNCHANGED <<fs, vcall, ccall, argv, proc, envops, input_path, output_path,
                   preview>>

-----------------------------------------------------------------------------
(* Other programs change the files *)

MaxEnvOps == 1

EnvPaths == {PA_PNG}

EnvFiles == {Absent, JunkFile(SmallSize)}

EnvChange(path, file) ==
    /\ GuiRunning
    /\ envops < MaxEnvOps
    /\ fs[path] # file
    /\ ~BeingWritten(path)
    /\ fs' = [fs EXCEPT ![path] = file]
    /\ envops' = envops + 1
    /\ UNCHANGED <<vcall, ccall, argv, proc, workers, queue>>
    /\ UNCHANGED guivars

-----------------------------------------------------------------------------
(* The graphical program *)

GuiFilesA == {ImageFile("RGBA", SmallSize), TruncatedFile("RGB", SmallSize)}

GuiFilesB == {Absent}

OpenNames == {<<>>, PA_PNG, PB_PNG, PD_PPM}

DropLists == {<<>>, <<PB_PNG, PA_PNG>>, <<PD_PPM>>}

SaveNames == {<<>>, <<"b">>, PA_PNG}

DialogFilters == {FILTER_PNG}

WorkerFaults == {"none", "save_early", "save_keep"}

Init ==
    /\ \E fa \in GuiFilesA, fb \in GuiFilesB :
           fs = [EmptyFs EXCEPT ![PA_PNG] = fa, ![PB_PNG] = fb,
                                ![PD_PPM] = ImageFile("RGB", SmallSize)]
    /\ argv = NoArgv
    /\ proc = [NoProc EXCEPT !.pc = "gui", !.branch = main_branch(NoArgv)]
    /\ vcall = NoVCall
    /\ ccall = NoCCall
    /\ envops = 0
    /\ GuiInit

Next ==
    \/ \E filename \in OpenNames : browse_input_file(filename)
    \/ \E files \in DropLists : dropEvent(files)
    \/ \E filename \in SaveNames, filter \in DialogFilters :
           browse_output_file(filename, filter)
    \/ LoadCheckSize
    \/ LoadVerify
    \/ LoadPreview
    \/ CloseBox
    \/ convert_image_threaded
    \/ Deliver
    \/ \E i \in DOMAIN workers : WorkerStart(i)
    \/ \E i \in DOMAIN workers : WorkerCheckExists(i)
    \/ \E i \in DOMAIN workers : WorkerCheckSize(i)
    \/ \E i \in DOMAIN workers : WorkerVerify(i)
    \/ \E i \in DOMAIN workers, fault \in WorkerFaults : WorkerConvert(i, fault)
    \/ \E i \in DOMAIN workers : WorkerSaved(i)
    \/ \E path \in EnvPaths, file \in EnvFiles : EnvChange(path, file)

Spec == Init /\ [][Next]_vars

-----------------------------------------------------------------------------
(* Properties of the graphical program *)

\* the workers between their start and the delivery of conversion_finished
InFlight == DOMAIN workers

\* C6: at most one conversion is in flight at any time: no second worker is
\* started while is_converting is true, and a call of the convert slot
\* while converting starts nothing and only reports an error.
C6_OneConversionInFlight ==
    /\ [](Cardinality(InFlight) <= 1 /\ (InFlight # {} => is_converting))
    /\ [][(is_converting /\ convert_image_threaded) =>
              /\ workers' = workers
              /\ queue' = queue
              /\ is_converting'
              /\ slots' = <<error_box(TITLE_ERROR, <<MSG_BUSY>>)>>]_vars

\* the convert slot ran during a conversion and was refused
C6_Witness ==
    /\ Cardinality(InFlight) = 1
    /\ is_converting
    /\ slots = <<error_box(TITLE_ERROR, <<MSG_BUSY>>)>>

IsPrefix(a, b) == Len(a) <= Len(b) /\ a = SubSeq(b, 1, Len(a))

\* C7 as stated: every worker signals only the progress values 20, 40 and
\* 100, in that order.
C7_Original ==
    \A i \in DOMAIN workers : IsPrefix(workers[i].progress, <<20, 40, 100>>)

\* C7 as amended: a worker signals 20 when validation starts, then either
\* 0 when validation fails, or 40 when it succeeds followed by 100 once
\* convert has returned, whether or not the save succeeded.
C7_ProgressMilestones ==
    \A i \in DOMAIN workers :
        LET w == workers[i]
        IN  /\ w.pc = "start" => w.progress = <<>>
            /\ w.pc \in {"exists", "size", "verify", "crashed"} => w.progress = <<20>>
            /\ w.pc \in {"convert", "saving"} =>
                   w.progress = <<20, 40>> /\ w.validated = "valid"
            /\ (w.pc = "done" /\ w.validated = "valid") =>
                   /\ w.progress = <<20, 40, 100>>
                   /\ w.outcome # NoOutcome
            /\ (w.pc = "done" /\ w.validated # "valid") =>
                   /\ w.progress = <<20, 0>>
                   /\ w.validated = "invalid"
                   /\ w.outcome = NoOutcome

\* a worker whose validation failed has signalled 20 and then 0
C7_Witness ==
    \E i \in DOMAIN workers :
        /\ workers[i].pc = "done"
        /\ workers[i].validated = "invalid"
        /\ workers[i].progress = <<20, 0>>

\* the GUI thread, in _load_input_file on path, decodes the file: Image.open
\* of validate_file or QPixmap of the preview
GuiReads(path) ==
    /\ slots # <<>>
    /\ Top.op = "load"
    /\ Top.path = path
    /\ LoadVerify \/ LoadPreview

\* C10 as stated: the GUI flow never reads a file while the worker has it
\* open for writing.
C10_Original ==
    [][\A path \in OpenNames \ {<<>>} : GuiReads(path) => ~BeingWritten(path)]_vars


\* C11: the paths of a conversion are those captured when the worker was
\* created: they never change while the worker lives, whatever is selected
\* in the window meanwhile, the save is called on the captured output path
\* and no file but that one is written by the program.
C11_RequestImmutable ==
    /\ [][/\ \A i \in DOMAIN workers \cap DOMAIN workers' :
                /\ workers'[i].input_path = workers[i].input_path
                /\ workers'[i].output_path = workers[i].output_path
          /\ \A i \in DOMAIN workers' \ DOMAIN workers :
                /\ workers'[i].input_path = input_path
                /\ workers'[i].output_path = output_path
          /\ envops' = envops =>
                \A p \in Paths : fs'[p] # fs[p] =>
                    \E i \in DOMAIN workers : workers[i].output_path = p]_vars
    /\ [](\A i \in DOMAIN workers :
             workers[i].outcome.save.strategy # "none" =>
                 workers[i].outcome.save.path = workers[i].output_path)

\* a worker is writing its output while the window shows another input and
\* another output
C11_Witness ==
    \E i \in DOMAIN workers :
        /\ workers[i].pc = "saving"
        /\ input_path # workers[i].input_path
        /\ output_path # workers[i].output_path

\* the run of worker i is over: run has returned, or has been left by an
\* exception
RunEnded(i) == workers[i].pc \in {"done", "crashed"}

\* the signals of worker i that wait in the queue, in order
signals_of(i) == SelectSeq(queue, LAMBDA m : m.worker = i)

\* C12 (as stated): a run that is over has emitted exactly one
\* conversion_finished, after all its progress and status signals, whatever
\* happened to the input file between the validation steps; and
\* is_converting is true only while a worker lives.
C12_Original ==
    /\ \A i \in DOMAIN workers :
          RunEnded(i) =>
              /\ workers[i].finished = 1
              /\ signals_of(i) # <<>>
              /\ signals_of(i)[Len(signals_of(i))].signal = "conversion_finished"
    /\ is_converting <=> DOMAIN workers # {}

\* the signal conversion_finished of worker i that waits in the queue
finished_of(i) == signals_of(i)[Len(signals_of(i))]

VALIDATION_FAILURES == {MSG_NOT_FOUND, MSG_BAD_FORMAT, MSG_TOO_LARGE, MSG_CORRUPT}

\* C13: a worker has invoked convert only after its own validation of the
\* input succeeded, and a run that returned has invoked convert exactly when
\* the validation succeeded. After a failed validation the run has signalled
\* neither 40 nor 100 and has emitted conversion_finished(False, the
\* validation message); after a successful one it has signalled 100 and
\* has emitted conversion_finished with the outcome of convert, success or
\* failure.
C13_ConvertIffValidated ==
    \A i \in DOMAIN workers :
        /\ workers[i].outcome # NoOutcome => workers[i].validated = "valid"
        /\ workers[i].pc = "done" =>
              /\ workers[i].validated \in {"valid", "invalid"}
              /\ workers[i].outcome # NoOutcome <=> workers[i].validated = "valid"
              /\ finished_of(i).signal = "conversion_finished"
              /\ workers[i].validated = "invalid" =>
                    /\ ~ \E k \in 1..Len(workers[i].progress) :
                            workers[i].progress[k] \in {40, 100}
                    /\ finished_of(i).ok = FALSE
                    /\ finished_of(i).message[1] \in VALIDATION_FAILURES
              /\ workers[i].validated = "valid" =>
                    /\ workers[i].progress[Len(workers[i].progress)] = 100
                    /\ finished_of(i).ok = workers[i].outcome.success
                    /\ finished_of(i).message = workers[i].outcome.message

\* a run whose validation succeeded and whose convert failed has reported 100
\* and the failure
C13_Witness ==
    \E i \in DOMAIN workers :
        /\ workers[i].pc = "done"
        /\ workers[i].validated = "valid"
        /\ ~workers[i].outcome.success
        /\ finished_of(i).ok = FALSE
        /\ finished_of(i).message[1] = MSG_CONV_ERROR

\* a run whose validation failed has reported the validation message
C13_WitnessInvalid ==
    \E i \in DOMAIN workers :
        /\ workers[i].pc = "done"
        /\ workers[i].validated = "invalid"
        /\ finished_of(i).message[1] \in VALIDATION_FAILURES

\* C14: in every state the window can be in, that is after every one of its
\* slots (accepted or rejected load, output chosen, conversion started or
\* refused, conversion finished), the convert button is enabled exactly when
\* input_path and output_path are both non-empty and no conversion is running.
C14_ButtonState ==
    convert_btn <=> (input_path # <<>> /\ output_path # <<>> /\ ~is_converting)

\* a conversion has finished and the button is enabled again
C14_Witness ==
    /\ ~is_converting
    /\ convert_btn
    /\ slots # <<>>
    /\ Top.op = "finished"
    /\ Top.box.kind = "information"
    /\ status_label = <<STATUS_SUCCESS>>

\* a file was loaded while a conversion runs and the button stays disabled
C14_WitnessBusy ==
    /\ is_converting
    /\ ~convert_btn
    /\ status_label = <<STATUS_LOADED>>

\* a step of a load that is rejected: the box of _show_error is opened by
\* _load_input_file or by dropEvent, that box is closed and the status text
\* set, or _load_input_file is left by the error of os.path.getsize
RejectedLoadStep ==
    \/ /\ slots' # slots
       /\ slots' # <<>>
       /\ slots'[Len(slots')].op = "show_error"
       /\ slots'[Len(slots')].box.title \in {TITLE_FILE_ERROR, TITLE_BAD_DROP}
    \/ /\ CloseBox
       /\ Top.op = "show_error"
       /\ Top.box.title \in {TITLE_FILE_ERROR, TITLE_BAD_DROP}
    \/ /\ LoadCheckSize
       /\ slots' = <<>>

\* the load of slots' has passed the check that leads to its position, on
\* the files as they are in this step
PassedCheck ==
    LET new == slots'[Len(slots')]
    IN  /\ new.pc = "size" => path_exists(fs, new.path) /\ has_valid_format(new.path)
        /\ new.pc = "verify" =>
               /\ Loading("size")
               /\ Top.path = new.path
               /\ path_exists(fs, new.path)
               /\ getsize(fs, new.path) <= MAX_FILE_SIZE
        /\ new.pc = "pixmap" =>
               /\ Loading("verify")
               /\ Top.path = new.path
               /\ verify_error(fs, new.path) = ""

\* C15: no step of a rejected load changes input_path, output_path,
\* is_converting or the enabled state of the convert button; input_path
\* changes only at the end of a load whose path has passed every check of
\* validate_file during that load, so it is always empty or a path that was
\* valid when loaded; and a conversion started afterwards is given the
\* input_path that was kept.
C15_RejectedLoadFrame ==
    [][/\ RejectedLoadStep =>
              UNCHANGED <<input_path, output_path, is_converting, convert_btn>>
       /\ (slots' # slots /\ slots' # <<>> /\ slots'[Len(slots')].op = "load") =>
              PassedCheck
       /\ input_path' # input_path =>
              /\ Loading("pixmap")
              /\ input_path' = Top.path
              /\ input_path' # <<>>
       /\ \A i \in DOMAIN workers' \ DOMAIN workers :
              workers'[i].input_path = input_path]_vars

\* a load was rejected while a valid input was selected, the box has been
\* closed and that input is still the selected one
C15_Witness ==
    /\ input_path = PA_PNG
    /\ Idle
    /\ status_label \in {error_status(TITLE_FILE_ERROR), error_status(TITLE_BAD_DROP)}

=============================================================================
